---- MODULE Spec2Model ----
(***************************************************************************)
(* ChronicleWeaver: the session orchestration core.                        *)
(*                                                                         *)
(* The model follows App (gameState, saveGame, loadGame, handleStartGame,  *)
(* handleNextTurn, handleApiError), the service functions they await       *)
(* (generateNextScene, generateSceneImage, generateRandomStory,            *)
(* generateRandomCharacterDetails, generateCharacterFromImage) and the     *)
(* controls of StoryInput, GameInterface and CharacterCreator that decide  *)
(* which intents can reach the handlers.                                   *)
(*                                                                         *)
(* JavaScript values:                                                      *)
(*   - a text is a sequence of one-character strings, so that trim() is    *)
(*     computed and not assumed;                                           *)
(*   - a value that may be null or undefined is << >> (absent) or <<v>>;   *)
(*   - a number is an integer, NaN, or (inside stored JSON) Null.          *)
(***************************************************************************)
EXTENDS Integers, Sequences, FiniteSets, TLC

\* ------------------------------------------------------------------ bounds
\* Successful turns a session may take (the history holds 1 + 2*MaxTurns entries).
MaxTurns == 2

\* Largest small stat a provider profile carries when a builder is run on its
\* own (besides 0 and the extremes -100 and 100).
MaxStatInput == 6

\* ------------------------------------------------------------- JS values
None == << >>
Some(v) == <<v>>
IsSome(m) == m # << >>

\* Math.min / Math.max with an undefined argument give NaN; JSON.stringify
\* writes NaN as null.
NaN == 999
Undefined == 998
Null == 997

\* if (x) for a value that may be undefined and is a boolean when present.
Truthy(m) == IsSome(m) /\ m[1]

\* String.prototype.trim on a text.
RECURSIVE trimStart(_)
trimStart(s) == IF s # << >> /\ Head(s) = " " THEN trimStart(Tail(s)) ELSE s

RECURSIVE trimEnd(_)
trimEnd(s) == IF s # << >> /\ s[Len(s)] = " " THEN trimEnd(SubSeq(s, 1, Len(s) - 1)) ELSE s

trim(s) == trimEnd(trimStart(s))

\* a || b for texts that may be undefined: the empty text and undefined are falsy.
OrText(m, default) == IF IsSome(m) /\ m[1] # << >> THEN m[1] ELSE default

\* --------------------------------------------------------- stat normalizer
STAT_POINTS_TOTAL == 10
STAT_MIN == 1
STAT_MAX == 5

IsNum(v) == v # NaN /\ v # Undefined /\ v # Null

\* Math.max(STAT_MIN, Math.min(STAT_MAX, v))
MathMin(a, b) == IF ~IsNum(a) \/ ~IsNum(b) THEN NaN ELSE IF a < b THEN a ELSE b
MathMax(a, b) == IF ~IsNum(a) \/ ~IsNum(b) THEN NaN ELSE IF a > b THEN a ELSE b
ClampStat(v) == MathMax(STAT_MIN, MathMin(STAT_MAX, v))

\* a + b and a - b, a > b and a < b on numbers that may be NaN.
Plus(a, b) == IF ~IsNum(a) \/ ~IsNum(b) THEN NaN ELSE a + b
\* Faulty variant of Minus: the operands are exchanged.
Minus_swapped(a, b) == IF ~IsNum(a) \/ ~IsNum(b) THEN NaN ELSE b - a

Minus(a, b) == IF ~IsNum(a) \/ ~IsNum(b) THEN NaN ELSE a - b
Gt(a, b) == IsNum(a) /\ IsNum(b) /\ a > b
Lt(a, b) == IsNum(a) /\ IsNum(b) /\ a < b

\* Faulty variant of ForStats: the pass goes from charisma back to strength.
RECURSIVE ForStats_reversed(_, _, _, _)
ForStats_reversed(stats, remainingPoints, k, changed) ==
  LET r == Len(stats) + 1 - k
  IN  IF k > Len(stats)
      THEN [stats |-> stats, remainingPoints |-> remainingPoints, changed |-> changed]
      ELSE IF Gt(remainingPoints, 0) /\ Lt(stats[r], STAT_MAX)
      THEN IF remainingPoints - 1 = 0
           THEN [stats |-> [stats EXCEPT ![r] = @ + 1], remainingPoints |-> 0, changed |-> TRUE]
           ELSE ForStats_reversed([stats EXCEPT ![r] = @ + 1], remainingPoints - 1, k + 1, TRUE)
      ELSE IF Lt(remainingPoints, 0) /\ Gt(stats[r], STAT_MIN)
      THEN IF remainingPoints + 1 = 0
           THEN [stats |-> [stats EXCEPT ![r] = @ - 1], remainingPoints |-> 0, changed |-> TRUE]
           ELSE ForStats_reversed([stats EXCEPT ![r] = @ - 1], remainingPoints + 1, k + 1, TRUE)
      ELSE ForStats_reversed(stats, remainingPoints, k + 1, changed)

\* Faulty variant of ForStats: remainingPoints is not counted down or up.
RECURSIVE ForStats_noCount(_, _, _, _)
ForStats_noCount(stats, remainingPoints, k, changed) ==
  IF k > Len(stats)
  THEN [stats |-> stats, remainingPoints |-> remainingPoints, changed |-> changed]
  ELSE IF Gt(remainingPoints, 0) /\ Lt(stats[k], STAT_MAX)
  THEN ForStats_noCount([stats EXCEPT ![k] = @ + 1], remainingPoints, k + 1, TRUE)
  ELSE IF Lt(remainingPoints, 0) /\ Gt(stats[k], STAT_MIN)
  THEN ForStats_noCount([stats EXCEPT ![k] = @ - 1], remainingPoints, k + 1, TRUE)
  ELSE ForStats_noCount(stats, remainingPoints, k + 1, changed)

\* One pass of "for (const stat of stats)" from stat k on: stats is
\* <<strength, dexterity, intelligence, charisma>>.
RECURSIVE ForStats(_, _, _, _)
ForStats(stats, remainingPoints, k, changed) ==
  IF k > Len(stats)
  THEN [stats |-> stats, remainingPoints |-> remainingPoints, changed |-> changed]
  ELSE IF Gt(remainingPoints, 0) /\ Lt(stats[k], STAT_MAX)
  THEN IF remainingPoints - 1 = 0
       THEN [stats |-> [stats EXCEPT ![k] = @ + 1], remainingPoints |-> 0, changed |-> TRUE]
       ELSE ForStats([stats EXCEPT ![k] = @ + 1], remainingPoints - 1, k + 1, TRUE)
  ELSE IF Lt(remainingPoints, 0) /\ Gt(stats[k], STAT_MIN)
  THEN IF remainingPoints + 1 = 0
       THEN [stats |-> [stats EXCEPT ![k] = @ - 1], remainingPoints |-> 0, changed |-> TRUE]
       ELSE ForStats([stats EXCEPT ![k] = @ - 1], remainingPoints + 1, k + 1, TRUE)
  ELSE ForStats(stats, remainingPoints, k + 1, changed)

\* Faulty variant of WhileRemaining: the stats are passed over once.
WhileRemaining_onePass(stats, remainingPoints, trace) ==
  IF remainingPoints = 0
  THEN [stats |-> stats, trace |-> trace, warned |-> FALSE]
  ELSE [stats |-> ForStats(stats, remainingPoints, 1, FALSE).stats,
        trace |-> Append(trace, remainingPoints), warned |-> FALSE]

\* Faulty variant of WhileRemaining: the loop gives up after any pass that
\* leaves points over, whether the pass changed a stat or not.
RECURSIVE WhileRemaining_givesUp(_, _, _)
WhileRemaining_givesUp(stats, remainingPoints, trace) ==
  IF remainingPoints = 0
  THEN [stats |-> stats, trace |-> trace, warned |-> FALSE]
  ELSE LET pass == ForStats(stats, remainingPoints, 1, FALSE)
       IN  IF pass.remainingPoints # 0
           THEN [stats |-> pass.stats, trace |-> Append(trace, remainingPoints),
                 warned |-> TRUE]
           ELSE WhileRemaining_givesUp(pass.stats, pass.remainingPoints,
                                       Append(trace, remainingPoints))

\* while (remainingPoints !== 0) { ...; if (!changed && remainingPoints !== 0) break; }
\* The result carries, besides the stats, what the loop did: trace holds
\* remainingPoints at the start of each pass, warned tells that the loop ended
\* in the branch of console.warn.
RECURSIVE WhileRemaining(_, _, _)
WhileRemaining(stats, remainingPoints, trace) ==
  IF remainingPoints = 0
  THEN [stats |-> stats, trace |-> trace, warned |-> FALSE]
  ELSE LET pass == ForStats(stats, remainingPoints, 1, FALSE)
       IN  IF ~pass.changed /\ pass.remainingPoints # 0
           THEN [stats |-> pass.stats, trace |-> Append(trace, remainingPoints),
                 warned |-> TRUE]
           ELSE WhileRemaining(pass.stats, pass.remainingPoints,
                               Append(trace, remainingPoints))

\* The post-processing of both character builders, on the four values of
\* the provider's profile: the clamping and the loop.
Normalization(raw) ==
  LET clamped == [k \in 1..4 |-> ClampStat(raw[k])]
      currentTotal == Plus(Plus(Plus(clamped[1], clamped[2]), clamped[3]), clamped[4])
  IN  WhileRemaining(clamped, Minus(STAT_POINTS_TOTAL, currentTotal), << >>)

\* The stats the post-processing leaves.
NormalizeStats(raw) == Normalization(raw).stats

\* The stats of a profile after Math.max(STAT_MIN, Math.min(STAT_MAX, .)).
Clamped(raw) == [k \in 1..4 |-> ClampStat(raw[k])]

\* The copy of the post-processing in generateCharacterFromImage: one pass of
\* its for loop from stat k on.
RECURSIVE ImageForStats(_, _, _, _)
ImageForStats(stats, remainingPoints, k, changed) ==
  IF k > Len(stats)
  THEN [stats |-> stats, remainingPoints |-> remainingPoints, changed |-> changed]
  ELSE IF Gt(remainingPoints, 0) /\ Lt(stats[k], STAT_MAX)
  THEN IF remainingPoints - 1 = 0
       THEN [stats |-> [stats EXCEPT ![k] = @ + 1], remainingPoints |-> 0, changed |-> TRUE]
       ELSE ImageForStats([stats EXCEPT ![k] = @ + 1], remainingPoints - 1, k + 1, TRUE)
  ELSE IF Lt(remainingPoints, 0) /\ Gt(stats[k], STAT_MIN)
  THEN IF remainingPoints + 1 = 0
       THEN [stats |-> [stats EXCEPT ![k] = @ - 1], remainingPoints |-> 0, changed |-> TRUE]
       ELSE ImageForStats([stats EXCEPT ![k] = @ - 1], remainingPoints + 1, k + 1, TRUE)
  ELSE ImageForStats(stats, remainingPoints, k + 1, changed)

\* Faulty variant of ImageWhileRemaining: the stats are passed over once.
ImageWhileRemaining_onePass(stats, remainingPoints, trace) ==
  IF remainingPoints = 0
  THEN [stats |-> stats, trace |-> trace, warned |-> FALSE]
  ELSE [stats |-> ImageForStats(stats, remainingPoints, 1, FALSE).stats,
        trace |-> Append(trace, remainingPoints), warned |-> FALSE]

\* Its while loop.
RECURSIVE ImageWhileRemaining(_, _, _)
ImageWhileRemaining(stats, remainingPoints, trace) ==
  IF remainingPoints = 0
  THEN [stats |-> stats, trace |-> trace, warned |-> FALSE]
  ELSE LET pass == ImageForStats(stats, remainingPoints, 1, FALSE)
       IN  IF ~pass.changed /\ pass.remainingPoints # 0
           THEN [stats |-> pass.stats, trace |-> Append(trace, remainingPoints),
                 warned |-> TRUE]
           ELSE ImageWhileRemaining(pass.stats, pass.remainingPoints,
                                    Append(trace, remainingPoints))

\* Faulty variant of ImageNormalization: currentTotal is taken before the
\* clamping.
ImageNormalization_rawTotal(raw) ==
  LET clamped == [k \in 1..4 |-> ClampStat(raw[k])]
      currentTotal == Plus(Plus(Plus(raw[1], raw[2]), raw[3]), raw[4])
  IN  ImageWhileRemaining(clamped, Minus(STAT_POINTS_TOTAL, currentTotal), << >>)

\* Its clamping and its loop.
ImageNormalization(raw) ==
  LET clamped == [k \in 1..4 |-> ClampStat(raw[k])]
      currentTotal == Plus(Plus(Plus(clamped[1], clamped[2]), clamped[3]), clamped[4])
  IN  ImageWhileRemaining(clamped, Minus(STAT_POINTS_TOTAL, currentTotal), << >>)

ImageNormalizeStats(raw) == ImageNormalization(raw).stats

\* ------------------------------------------------------- character builders
\* let { strength, dexterity, intelligence, charisma } = generatedData
StatsOf(generatedData) ==
  <<generatedData.strength, generatedData.dexterity,
    generatedData.intelligence, generatedData.charisma>>

\* generateRandomCharacterDetails: the returned Character, given the parsed
\* profile and the portrait that generateRandomCharacterPortrait returned.
RandomCharacter(generatedData, portraitImageUrl) ==
  LET stats == NormalizeStats(StatsOf(generatedData))
  IN  [name |-> Some(OrText(generatedData.name, <<"R">>)),
       appearanceDescription |-> Some(OrText(generatedData.appearanceDescription, <<"m">>)),
       strength |-> stats[1], dexterity |-> stats[2],
       intelligence |-> stats[3], charisma |-> stats[4],
       portraitImageUrl |-> portraitImageUrl]

\* generateCharacterFromImage: the returned Character; the portrait is the
\* uploaded image.
CharacterFromImage(generatedData, image) ==
  LET stats == ImageNormalizeStats(StatsOf(generatedData))
  IN  [name |-> generatedData.name,
       appearanceDescription |-> generatedData.appearanceDescription,
       strength |-> stats[1], dexterity |-> stats[2],
       intelligence |-> stats[3], charisma |-> stats[4],
       portraitImageUrl |-> image]

\* ------------------------------------------------------------ the provider
\* What a provider call can raise: error.error.code === 429, or anything else
\* (network, a SyntaxError of JSON.parse, ...).
Errors == {"quota", "other"}

\* JSON.parse(response.text || '{}') of a profile call: a full profile whose
\* stats break the budget, and the empty object of an empty response.
ProfileResponses ==
  { [name |-> Some(<<"A">>), appearanceDescription |-> Some(<<"t">>),
     strength |-> 9, dexterity |-> 0, intelligence |-> 3, charisma |-> 3],
    [name |-> None, appearanceDescription |-> None,
     strength |-> Undefined, dexterity |-> Undefined,
     intelligence |-> Undefined, charisma |-> Undefined] }

\* JSON.parse(result.text || '{}') of a scene call: a scene with choices, an
\* ending, and the empty object of an empty response.
SceneResponses ==
  { [sceneDescription |-> Some(<<"d">>), imagePrompt |-> Some("prompt"),
     suggestedChoices |-> Some(<< <<"a">> >>), isEnding |-> Some(FALSE)],
    [sceneDescription |-> Some(<<"e">>), imagePrompt |-> Some("prompt"),
     suggestedChoices |-> Some(<< >>), isEnding |-> Some(TRUE)],
    [sceneDescription |-> None, imagePrompt |-> None,
     suggestedChoices |-> None, isEnding |-> None] }

NoResponse ==
  [sceneDescription |-> None, imagePrompt |-> None,
   suggestedChoices |-> None, isEnding |-> None]

\* response.text of generateRandomStory: a story, a blank text, nothing.
StoryTexts == { Some(<<"g">>), Some(<<" ">>), None }

\* The fixed story of generateRandomStory when the provider's text is empty.
FallbackStory == <<"F">>

\* Math.random().toString(36).substr(2, 9)
SceneIds == {"id1"}

\* The image call of generateSceneImage: its response carries inline image
\* data, or is well formed without any, or the call raises.
ImageResponses == {"inline", "noInline", "throws"}

\* generateRandomCharacterPortrait, likewise.
Portraits == {"data:image/png"}

\* What the user can type or upload.
StorySeeds == { << >>, <<" ">>, <<" ", "s", " ">> }
CustomActions == { <<" ">>, <<"a">> }
EnteredNames == { << >>, <<" ", "Z">> }
UploadedImages == {"data:upload"}

\* JSON.parse(response.text || '{}') of the profile call for an uploaded image.
UploadedProfiles ==
  { [name |-> Some(<<"A">>), appearanceDescription |-> Some(<<"t">>),
     strength |-> 9, dexterity |-> 0, intelligence |-> 3, charisma |-> 3] }

\* --------------------------------------------------------------- storage
\* The text under LOCAL_STORAGE_KEY. JSON.parse throws on a text that does
\* not parse and otherwise returns its value.
JSONNumber(n) == IF n = NaN THEN Null ELSE n

JSONCharacter(character) ==
  IF character = None
  THEN None
  ELSE Some([character[1] EXCEPT !.strength = JSONNumber(@),
                                  !.dexterity = JSONNumber(@),
                                  !.intelligence = JSONNumber(@),
                                  !.charisma = JSONNumber(@)])

\* Faulty variant of JSONStringify: currentScene is not written.
JSONStringify_noScene(saveObject) ==
  [parses |-> TRUE,
   value |-> [saveObject EXCEPT !.character = JSONCharacter(@), !.currentScene = None]]

\* JSON.stringify(saveObject): properties that are undefined are left out
\* (they read as undefined again), NaN is written as null.
JSONStringify(saveObject) ==
  [parses |-> TRUE,
   value |-> [saveObject EXCEPT !.character = JSONCharacter(@)]]

EmptySave ==
  [originalStory |-> << >>, history |-> << >>, currentScene |-> None, character |-> None]

\* A stored text that is not JSON, and one that is JSON of another shape:
\* {"originalStory": "", "history": []}.
CorruptText == [parses |-> FALSE, value |-> EmptySave]
WrongShapeText == [parses |-> TRUE, value |-> EmptySave]

\* ----------------------------------------------------------------- state
VARIABLES
  gameState,      \* useState<GameState>
  hasSavedGame,   \* useState(false), set on mount and by loadGame
  isSaving,       \* useState(false)
  localStorage,   \* the slot LOCAL_STORAGE_KEY: None or Some(text)
  calls,          \* the handleStartGame / handleNextTurn calls in flight
  creator,        \* the state of CharacterCreator while it is mounted
  last,           \* history variable: the last step, and gameState before its attempt
  saved,          \* history variable: gameState (and turns) at the save the slot holds
  turns,          \* history variable: successful turns since the session's start, -1 without one
  probe           \* the input and the outputs of a character builder run on its own

vars == <<gameState, hasSavedGame, isSaving, localStorage, calls, creator, last, saved, turns,
          probe>>

InitialGameState ==
  [originalStory |-> << >>, history |-> << >>, currentScene |-> None,
   status |-> "IDLE", character |-> None]

Unmounted ==
  [generatedCharacter |-> None, userEnteredName |-> << >>, isGenerating |-> FALSE]

NoProfile ==
  [name |-> None, appearanceDescription |-> None,
   strength |-> Undefined, dexterity |-> Undefined,
   intelligence |-> Undefined, charisma |-> Undefined]

\* No handler call.
NoCall ==
  [kind |-> "none", pc |-> "none", gameState |-> InitialGameState,
   story |-> << >>, finalStory |-> << >>, finalCharacter |-> None, history |-> << >>,
   userInput |-> << >>, generatedData |-> NoProfile, data |-> NoResponse,
   issued |-> << >>, image |-> "none", request |-> << >>, awaited |-> << >>]

\* What the history variable last records of a step: the operation, the error
\* it met, gameState before the attempt, and the text the user submitted.
\* call is the handler call that the step ended, NoCall when it ended none.
Step(op, error, pre, input) ==
  [op |-> op, error |-> error, pre |-> pre, input |-> input, call |-> NoCall]

\* The step ended the handler call c.
Ended(step, c) == [step EXCEPT !.call = c]

\* No builder is run on its own.
NoProbe ==
  [raw |-> << >>, builder |-> "none", out |-> << >>, again |-> << >>,
   trace |-> << >>, warned |-> FALSE, other |-> << >>, ofClamped |-> << >>]

Init ==
  /\ gameState = InitialGameState
  /\ localStorage \in {None, Some(CorruptText), Some(WrongShapeText)}
  /\ hasSavedGame = IsSome(localStorage)
  /\ isSaving = FALSE
  /\ calls = << >>
  /\ creator = Unmounted
  /\ last = Step("mount", "none", InitialGameState, << >>)
  /\ saved = None
  /\ turns = -1
  /\ probe = NoProbe

\* ------------------------------------------------------------- rendering
\* App renders GameInterface.
GameInterfaceShown ==
  /\ gameState.status \in {"PLAYING", "LOADING_NEXT"}
  /\ IsSome(gameState.currentScene)

\* GameInterface renders: scene.choices.map is evaluated unless the scene is
\* an ending; on undefined it throws and React unmounts the application.
GameInterfaceRenders ==
  /\ GameInterfaceShown
  /\ \/ Truthy(gameState.currentScene[1].isEnding)
     \/ IsSome(gameState.currentScene[1].choices)

\* isLoading of GameInterface.
isLoading == gameState.status = "LOADING_NEXT"

\* App renders StoryInput; its isLoading is status === 'STARTING', false here.
StoryInputShown == gameState.status = "IDLE"

CharacterCreatorShown == gameState.status = "CHARACTER_CREATION"

Remove(seq, i) == SubSeq(seq, 1, i - 1) \o SubSeq(seq, i + 1, Len(seq))

\* ------------------------------------------------- the calls in flight
\* "The adventure begins."
AdventureBegins == <<"T">>

\* `Player Character: ...`, the empty text without a character. The template
\* is the record of the values it interpolates.
CharacterContext(character) ==
  IF IsSome(character)
  THEN Some([name |-> character[1].name,
             appearanceDescription |-> character[1].appearanceDescription,
             strength |-> character[1].strength, dexterity |-> character[1].dexterity,
             intelligence |-> character[1].intelligence, charisma |-> character[1].charisma,
             portraitNote |-> character[1].portraitImageUrl # ""])
  ELSE None

\* { text: `${label}${text}${characterContext}` }
Part(label, text, characterContext) ==
  [label |-> label, text |-> text, characterContext |-> characterContext]

\* const contents = [ {role: 'user', ...}, ...history.map(...), {role: 'user', ...} ]
Contents(originalStory, history, userInput, character) ==
  << [role |-> Some("user"),
      parts |-> << Part("Original Story Context:", Some(originalStory),
                        CharacterContext(character)) >>] >>
  \o [k \in 1..Len(history) |->
        [role |-> Some(history[k].role), parts |-> << Part("", history[k].text, None) >>]]
  \o << [role |-> Some("user"), parts |-> << Part("Player Action:", Some(userInput), None) >>] >>

\* contents.flatMap(c => c.parts)
RECURSIVE FlatMapParts(_)
FlatMapParts(contents) ==
  IF contents = << >> THEN << >> ELSE Head(contents).parts \o FlatMapParts(Tail(contents))

\* The contents that ai.models.generateContent is given, as the sequence of the
\* Content items the provider receives: { parts: contents.flatMap(c => c.parts) }
\* is one Content, which has no role.
Request(contents) == << [role |-> None, parts |-> FlatMapParts(contents)] >>

\* The request of the text call of generateNextScene, for the call c of a handler.
RequestOf(c) == Request(Contents(c.finalStory, c.history, c.userInput, c.finalCharacter))

\* A call of handleStartGame or handleNextTurn: the gameState its closure
\* holds, its local variables, and the await it is suspended at.
NewCall(kind, pc, story, finalStory, userInput) ==
  LET history == IF kind = "start" THEN << >> ELSE gameState.history
  IN  [kind |-> kind, pc |-> pc, gameState |-> gameState,
       story |-> story, finalStory |-> finalStory, finalCharacter |-> gameState.character,
       history |-> history,
       userInput |-> userInput, generatedData |-> NoProfile, data |-> NoResponse,
       issued |-> IF pc = "text" THEN <<"text">> ELSE << >>,
       image |-> "none",
       request |-> IF pc = "text"
                   THEN Request(Contents(finalStory, history, userInput, gameState.character))
                   ELSE << >>,
       awaited |-> <<pc>>]

\* Faulty variant of Await: the image call is started together with the text
\* call.
Await_parallel(c, pc) ==
  [c EXCEPT !.pc = pc,
            !.issued = IF pc = "text" THEN @ \o <<"text", "image">>
                       ELSE IF pc = "image" THEN Append(@, pc) ELSE @,
            !.request = IF pc = "text" THEN RequestOf(c) ELSE @,
            !.awaited = Append(@, pc)]

\* The call goes on to its next await; issued lists the provider calls that
\* generateNextScene has made and awaited all the awaits of the call (history
\* variables of the call), request is the request of its text call.
Await(c, pc) ==
  [c EXCEPT !.pc = pc,
            !.issued = IF pc \in {"text", "image"} THEN Append(@, pc) ELSE @,
            !.request = IF pc = "text" THEN RequestOf(c) ELSE @,
            !.awaited = Append(@, pc)]

\* Faulty variant of AwaitAfterStory: a character is generated whether one is
\* attached or not.
AwaitAfterStory_always(finalCharacter) == "profile"

\* let finalCharacter = gameState.character; if (!finalCharacter) ... : the
\* next await of handleStartGame once the story is known.
AwaitAfterStory(finalCharacter) ==
  IF IsSome(finalCharacter) THEN "text" ELSE "profile"

\* response.text?.trim() || "An ancient evil stirs ..."
generateRandomStory(text) ==
  OrText(IF IsSome(text) THEN Some(trim(text[1])) ELSE None, FallbackStory)

\* Faulty variant of generateSceneImage: without inline data no reference is
\* returned.
generateSceneImage_noPlaceholder(response) ==
  IF response = "inline" THEN "data:image/png" ELSE ""

\* generateSceneImage: the data URL of the first part with inlineData; the
\* placeholder when there is none or when the call raised (the catch block
\* logs and falls through).
generateSceneImage(response) ==
  IF response = "inline" THEN "data:image/png" ELSE "picsum.photos/seed"

\* The Scene generateNextScene returns.
Scene(data, imageUrl, id) ==
  [id |-> id, description |-> data.sceneDescription, imagePrompt |-> data.imagePrompt,
   imageUrl |-> imageUrl, choices |-> data.suggestedChoices, isEnding |-> data.isEnding]

\* Faulty variant of StartSucceeds: the first entry is written as the user's.
StartSucceeds_userFirst(prev, c, initialScene) ==
  [prev EXCEPT !.originalStory = c.finalStory,
               !.character = c.finalCharacter,
               !.currentScene = Some(initialScene),
               !.history = <<[role |-> "user", text |-> initialScene.description]>>,
               !.status = "PLAYING"]

\* Faulty variant of StartSucceeds: the seed is stored as it was typed.
StartSucceeds_rawSeed(prev, c, initialScene) ==
  [prev EXCEPT !.originalStory = c.story,
               !.character = c.finalCharacter,
               !.currentScene = Some(initialScene),
               !.history = <<[role |-> "model", text |-> initialScene.description]>>,
               !.status = "PLAYING"]

\* setGameState of handleStartGame on success.
StartSucceeds(prev, c, initialScene) ==
  [prev EXCEPT !.originalStory = c.finalStory,
               !.character = c.finalCharacter,
               !.currentScene = Some(initialScene),
               !.history = <<[role |-> "model", text |-> initialScene.description]>>,
               !.status = "PLAYING"]

\* Faulty variant of NextTurnSucceeds: the user's action is not recorded.
NextTurnSucceeds_modelOnly(prev, c, nextScene) ==
  [prev EXCEPT !.currentScene = Some(nextScene),
               !.history = @ \o <<[role |-> "model", text |-> nextScene.description]>>,
               !.status = "PLAYING"]

\* Faulty variant of NextTurnSucceeds: the history is rebuilt from the turn.
NextTurnSucceeds_replaces(prev, c, nextScene) ==
  [prev EXCEPT !.currentScene = Some(nextScene),
               !.history = <<[role |-> "user", text |-> Some(c.userInput)],
                             [role |-> "model", text |-> nextScene.description]>>,
               !.status = "PLAYING"]

\* Faulty variant of NextTurnSucceeds: the new state is built without the
\* character.
NextTurnSucceeds_dropsCharacter(prev, c, nextScene) ==
  [prev EXCEPT !.currentScene = Some(nextScene),
               !.history = @ \o <<[role |-> "user", text |-> Some(c.userInput)],
                                  [role |-> "model", text |-> nextScene.description]>>,
               !.character = None,
               !.status = "PLAYING"]

\* Faulty variant of NextTurnSucceeds: the new scene is told in the history
\* but the current scene is not replaced.
NextTurnSucceeds_keepsScene(prev, c, nextScene) ==
  [prev EXCEPT !.history = @ \o <<[role |-> "user", text |-> Some(c.userInput)],
                                  [role |-> "model", text |-> nextScene.description]>>,
               !.status = "PLAYING"]

\* setGameState of handleNextTurn on success.
NextTurnSucceeds(prev, c, nextScene) ==
  [prev EXCEPT !.currentScene = Some(nextScene),
               !.history = @ \o <<[role |-> "user", text |-> Some(c.userInput)],
                                  [role |-> "model", text |-> nextScene.description]>>,
               !.status = "PLAYING"]

\* setGameState of handleApiError, in both of its branches.
handleApiError(prev) == [prev EXCEPT !.status = "IDLE"]

\* Faulty variant of AfterApiError: the catch block leaves the status that
\* handleApiError has set.
AfterApiError_keepsIdle(prev, c) == prev

\* The catch block of the handler after handleApiError has returned:
\* handleNextTurn sets PLAYING when its closure held a scene.
AfterApiError(prev, c) ==
  IF c.kind = "turn" /\ IsSome(c.gameState.currentScene)
  THEN [prev EXCEPT !.status = "PLAYING"]
  ELSE prev

Outcome(c, result) == (IF c.kind = "start" THEN "start_" ELSE "turn_") \o result

\* -------------------------------------------------------------- intents
\* StoryInput: BEGIN A NEW JOURNEY -> handleStartGame(story).
handleStartGame(story) ==
  /\ StoryInputShown
  /\ LET finalStory == trim(story)
         pc == IF finalStory = << >> THEN "story" ELSE AwaitAfterStory(gameState.character)
     IN  calls' = Append(calls, NewCall("start", pc, story, finalStory, AdventureBegins))
  /\ gameState' = [gameState EXCEPT !.status = "STARTING"]
  /\ last' = Step("start_submitted", "none", gameState, story)
  /\ UNCHANGED <<hasSavedGame, isSaving, localStorage, creator, saved, turns, probe>>

\* The texts of the choice buttons of a scene.
Choices(scene) ==
  IF IsSome(scene.choices) THEN {scene.choices[1][k] : k \in 1..Len(scene.choices[1])} ELSE {}

\* Faulty variant of CanSubmit: the controls are not disabled while isLoading.
CanSubmit_whileLoading(action) ==
  /\ GameInterfaceRenders
  /\ ~Truthy(gameState.currentScene[1].isEnding)
  /\ \/ action \in Choices(gameState.currentScene[1])
     \/ action \in CustomActions /\ trim(action) # << >>

\* Faulty variant of CanSubmit: the controls are rendered for an ending too.
CanSubmit_onEnding(action) ==
  /\ GameInterfaceRenders
  /\ ~isLoading
  /\ \/ action \in Choices(gameState.currentScene[1])
     \/ action \in CustomActions /\ trim(action) # << >>

\* GameInterface: the controls that call onChoice are rendered when the scene
\* is no ending and are disabled while isLoading; the form submits a custom
\* action that is not blank.
CanSubmit(action) ==
  /\ GameInterfaceRenders
  /\ ~Truthy(gameState.currentScene[1].isEnding)
  /\ ~isLoading
  /\ \/ action \in Choices(gameState.currentScene[1])
     \/ action \in CustomActions /\ trim(action) # << >>

\* handleNextTurn(action), up to its first await.
handleNextTurn(action) ==
  /\ CanSubmit(action)
  /\ Len(gameState.history) < 1 + 2 * MaxTurns
  /\ IF ~IsSome(gameState.currentScene)
     THEN UNCHANGED <<gameState, calls>>
     ELSE /\ gameState' = [gameState EXCEPT !.status = "LOADING_NEXT"]
          /\ calls' = Append(calls, NewCall("turn", "text", << >>, gameState.originalStory, action))
  /\ last' = Step("turn_submitted", "none", gameState, action)
  /\ UNCHANGED <<hasSavedGame, isSaving, localStorage, creator, saved, turns, probe>>

\* ------------------------------------------------ provider completions
\* generateRandomStory resolves.
RandomStoryReturns(i, text) ==
  /\ calls[i].pc = "story"
  /\ calls' = [calls EXCEPT ![i] =
                  Await([calls[i] EXCEPT !.finalStory = generateRandomStory(text)],
                        AwaitAfterStory(calls[i].finalCharacter))]
  /\ last' = Step("story_generated", "none", calls[i].gameState, calls[i].userInput)
  /\ UNCHANGED <<gameState, hasSavedGame, isSaving, localStorage, creator, saved, turns, probe>>

\* The profile call of generateRandomCharacterDetails resolves; the portrait
\* call follows.
ProfileReturns(i, generatedData) ==
  /\ calls[i].pc = "profile"
  /\ calls' = [calls EXCEPT ![i] = Await([calls[i] EXCEPT !.generatedData = generatedData],
                                         "portrait")]
  /\ last' = Step("profile_generated", "none", calls[i].gameState, calls[i].userInput)
  /\ UNCHANGED <<gameState, hasSavedGame, isSaving, localStorage, creator, saved, turns, probe>>

\* generateRandomCharacterPortrait returns (it never throws).
PortraitReturns(i, portraitImageUrl) ==
  /\ calls[i].pc = "portrait"
  /\ calls' = [calls EXCEPT
                 ![i] = Await([calls[i] EXCEPT !.finalCharacter =
                                 Some(RandomCharacter(calls[i].generatedData, portraitImageUrl))],
                              "text")]
  /\ last' = Step("character_generated", "none", calls[i].gameState, calls[i].userInput)
  /\ UNCHANGED <<gameState, hasSavedGame, isSaving, localStorage, creator, saved, turns, probe>>

\* The text call of generateNextScene resolves and its text parses; the
\* image call follows.
SceneTextReturns(i, data) ==
  /\ calls[i].pc = "text"
  /\ calls' = [calls EXCEPT ![i] = Await([calls[i] EXCEPT !.data = data], "image")]
  /\ last' = Step("text_generated", "none", calls[i].gameState, calls[i].userInput)
  /\ UNCHANGED <<gameState, hasSavedGame, isSaving, localStorage, creator, saved, turns, probe>>

\* The image call ends and generateSceneImage returns (it never throws);
\* generateNextScene returns the Scene and the handler commits it.
SceneImageReturns(i, response, id) ==
  /\ calls[i].pc = "image"
  /\ LET c == [calls[i] EXCEPT !.image = response]
         scene == Scene(c.data, generateSceneImage(response), id)
     IN  /\ gameState' = IF c.kind = "start"
                         THEN StartSucceeds(gameState, c, scene)
                         ELSE NextTurnSucceeds(gameState, c, scene)
         /\ last' = Ended(Step(Outcome(c, "succeeded"), "none", c.gameState, c.userInput), c)
         /\ turns' = IF c.kind = "start" THEN 0 ELSE turns + 1
  /\ calls' = Remove(calls, i)
  /\ UNCHANGED <<hasSavedGame, isSaving, localStorage, creator, saved, probe>>

\* A provider call of the handler throws (or JSON.parse of its text does):
\* catch (error) { await handleApiError(error); ... }. With a quota error
\* and window.aistudio.openSelectKey present, handleApiError awaits it.
ProviderCallThrows(i, error, aistudio) ==
  /\ calls[i].pc \in {"story", "profile", "text"}
  /\ IF error = "quota" /\ aistudio
     THEN /\ calls' = [calls EXCEPT ![i] = Await(@, "selectKey")]
          /\ last' = Step("select_key", error, calls[i].gameState, calls[i].userInput)
          /\ UNCHANGED gameState
     ELSE /\ gameState' = AfterApiError(handleApiError(gameState), calls[i])
          /\ calls' = Remove(calls, i)
          /\ last' = Ended(Step(Outcome(calls[i], "failed"), error,
                                calls[i].gameState, calls[i].userInput), calls[i])
  /\ UNCHANGED <<hasSavedGame, isSaving, localStorage, creator, saved, turns, probe>>

\* window.aistudio.openSelectKey() resolves: handleApiError sets IDLE and
\* returns to the catch block.
SelectKeyReturns(i) ==
  /\ calls[i].pc = "selectKey"
  /\ gameState' = AfterApiError(handleApiError(gameState), calls[i])
  /\ calls' = Remove(calls, i)
  /\ last' = Ended(Step(Outcome(calls[i], "failed"), "quota",
                        calls[i].gameState, calls[i].userInput), calls[i])
  /\ UNCHANGED <<hasSavedGame, isSaving, localStorage, creator, saved, turns, probe>>

\* window.aistudio.openSelectKey() rejects: handleApiError rejects inside
\* the catch block, and the handler ends without another setGameState.
SelectKeyThrows(i) ==
  /\ calls[i].pc = "selectKey"
  /\ calls' = Remove(calls, i)
  /\ last' = Ended(Step(Outcome(calls[i], "abandoned"), "quota",
                        calls[i].gameState, calls[i].userInput), calls[i])
  /\ UNCHANGED <<gameState, hasSavedGame, isSaving, localStorage, creator, saved, turns, probe>>

\* ---------------------------------------------------------- persistence
\* The saveObject of saveGame.
SaveObject(gs) ==
  [originalStory |-> gs.originalStory, history |-> gs.history,
   currentScene |-> gs.currentScene, character |-> gs.character]

\* setGameState of loadGame for the parsed loadedState.
Loaded(loadedState) ==
  [originalStory |-> loadedState.originalStory,
   history |-> loadedState.history,
   currentScene |-> loadedState.currentScene,
   status |-> "PLAYING",
   character |-> loadedState.character]

\* Faulty variant of saveGame: without the finally block, isSaving stays set
\* when setItem throws.
saveGame_staysSaving(stored) ==
  /\ IF ~IsSome(gameState.currentScene)
     THEN /\ last' = Step("save_nothing", "none", gameState, << >>)
          /\ isSaving' = FALSE
          /\ UNCHANGED <<localStorage, saved, turns>>
     ELSE IF stored
     THEN /\ localStorage' = Some(JSONStringify(SaveObject(gameState)))
          /\ saved' = Some([gameState |-> gameState, turns |-> turns])
          /\ last' = Step("save_succeeded", "none", gameState, << >>)
          /\ isSaving' = FALSE
          /\ UNCHANGED turns
     ELSE /\ last' = Step("save_failed", "storage", gameState, << >>)
          /\ isSaving' = TRUE
          /\ UNCHANGED <<localStorage, saved, turns>>
  /\ UNCHANGED <<gameState, hasSavedGame, calls, creator, probe>>

\* Faulty variant of saveGame: without the early return, the session is stored
\* whether it has a scene or not.
saveGame_savesAnyway(stored) ==
  /\ IF stored
     THEN /\ localStorage' = Some(JSONStringify(SaveObject(gameState)))
          /\ saved' = Some([gameState |-> gameState, turns |-> turns])
          /\ last' = Step("save_succeeded", "none", gameState, << >>)
          /\ UNCHANGED turns
     ELSE /\ last' = Step("save_failed", "storage", gameState, << >>)
          /\ UNCHANGED <<localStorage, saved, turns>>
  /\ isSaving' = FALSE
  /\ UNCHANGED <<gameState, hasSavedGame, calls, creator, probe>>

\* saveGame(): localStorage.setItem stores the text or throws.
saveGame(stored) ==
  /\ IF ~IsSome(gameState.currentScene)
     THEN /\ last' = Step("save_nothing", "none", gameState, << >>)
          /\ UNCHANGED <<localStorage, saved, turns>>
     ELSE IF stored
     THEN /\ localStorage' = Some(JSONStringify(SaveObject(gameState)))
          /\ saved' = Some([gameState |-> gameState, turns |-> turns])
          /\ last' = Step("save_succeeded", "none", gameState, << >>)
          /\ UNCHANGED turns
     ELSE /\ last' = Step("save_failed", "storage", gameState, << >>)
          /\ UNCHANGED <<localStorage, saved, turns>>
  /\ isSaving' = FALSE
  /\ UNCHANGED <<gameState, hasSavedGame, calls, creator, probe>>

\* The Save Game button of GameInterface is rendered and enabled.
CanSave == GameInterfaceRenders /\ ~isLoading /\ ~isSaving

\* GameInterface: Save Game (disabled while isLoading or isSaving) ->
\* onSaveGame, which is saveGame of App.
onSaveGame(stored) == CanSave /\ saveGame(stored)

\* Faulty variant of loadGame: an empty slot is handled as a corrupt one.
loadGame_resetsOnEmptySlot ==
  /\ StoryInputShown
  /\ hasSavedGame
  /\ IF IsSome(localStorage) /\ localStorage[1].parses
     THEN /\ gameState' = Loaded(localStorage[1].value)
          /\ hasSavedGame' = TRUE
          /\ last' = Step("load_succeeded", "none", gameState, << >>)
          /\ turns' = IF IsSome(saved) THEN saved[1].turns ELSE -1
          /\ UNCHANGED <<localStorage, saved>>
     ELSE /\ localStorage' = None
          /\ hasSavedGame' = FALSE
          /\ gameState' = InitialGameState
          /\ last' = Step(IF IsSome(localStorage) THEN "load_failed" ELSE "load_notfound",
                          IF IsSome(localStorage) THEN "corrupt" ELSE "none", gameState, << >>)
          /\ saved' = None
          /\ turns' = -1
  /\ UNCHANGED <<isSaving, calls, creator, probe>>

\* Faulty variant of loadGame: the button is rendered in every status.
loadGame_anytime ==
  /\ hasSavedGame
  /\ IF IsSome(localStorage)
     THEN IF localStorage[1].parses
          THEN /\ gameState' = Loaded(localStorage[1].value)
               /\ hasSavedGame' = TRUE
               /\ last' = Step("load_succeeded", "none", gameState, << >>)
               /\ turns' = IF IsSome(saved) THEN saved[1].turns ELSE -1
               /\ UNCHANGED <<localStorage, saved>>
          ELSE /\ localStorage' = None
               /\ hasSavedGame' = FALSE
               /\ gameState' = InitialGameState
               /\ last' = Step("load_failed", "corrupt", gameState, << >>)
               /\ saved' = None
               /\ turns' = -1
     ELSE /\ hasSavedGame' = FALSE
          /\ last' = Step("load_notfound", "none", gameState, << >>)
          /\ UNCHANGED <<gameState, localStorage, saved, turns>>
  /\ UNCHANGED <<isSaving, calls, creator, probe>>

\* StoryInput: CONTINUE JOURNEY (rendered when hasSavedGame) -> loadGame().
loadGame ==
  /\ StoryInputShown
  /\ hasSavedGame
  /\ IF IsSome(localStorage)
     THEN IF localStorage[1].parses
          THEN /\ gameState' = Loaded(localStorage[1].value)
               /\ hasSavedGame' = TRUE
               /\ last' = Step("load_succeeded", "none", gameState, << >>)
               /\ turns' = IF IsSome(saved) THEN saved[1].turns ELSE -1
               /\ UNCHANGED <<localStorage, saved>>
          ELSE /\ localStorage' = None
               /\ hasSavedGame' = FALSE
               /\ gameState' = InitialGameState
               /\ last' = Step("load_failed", "corrupt", gameState, << >>)
               /\ saved' = None
               /\ turns' = -1
     ELSE /\ hasSavedGame' = FALSE
          /\ last' = Step("load_notfound", "none", gameState, << >>)
          /\ UNCHANGED <<gameState, localStorage, saved, turns>>
  /\ UNCHANGED <<isSaving, calls, creator, probe>>

\* The store loses the key outside the application (site data cleared).
StorageCleared ==
  /\ IsSome(localStorage)
  /\ localStorage' = None
  /\ saved' = None
  /\ last' = Step("storage_cleared", "none", gameState, << >>)
  /\ UNCHANGED <<gameState, hasSavedGame, isSaving, calls, creator, turns, probe>>

\* GameInterface of an ending: Begin a New Legend -> window.location.reload();
\* App mounts again and its effect reads the slot.
Reload ==
  /\ GameInterfaceRenders
  /\ Truthy(gameState.currentScene[1].isEnding)
  /\ gameState' = InitialGameState
  /\ hasSavedGame' = IsSome(localStorage)
  /\ isSaving' = FALSE
  /\ calls' = << >>
  /\ creator' = Unmounted
  /\ last' = Step("mount", "none", InitialGameState, << >>)
  /\ turns' = -1
  /\ UNCHANGED <<localStorage, saved, probe>>

\* ---------------------------------------------------- character authoring
\* StoryInput: Create Hero / Edit Hero; CharacterCreator mounts with
\* initialCharacter = gameState.character.
onCreateCharacter ==
  /\ StoryInputShown
  /\ gameState' = [gameState EXCEPT !.status = "CHARACTER_CREATION"]
  /\ creator' = [generatedCharacter |-> gameState.character,
                 userEnteredName |-> IF IsSome(gameState.character)
                                     THEN OrText(gameState.character[1].name, << >>)
                                     ELSE << >>,
                 isGenerating |-> FALSE]
  /\ last' = Step("creator_opened", "none", gameState, << >>)
  /\ UNCHANGED <<hasSavedGame, isSaving, localStorage, calls, saved, turns, probe>>

\* The name input (disabled while isGenerating).
EnterName(name) ==
  /\ CharacterCreatorShown
  /\ ~creator.isGenerating
  /\ creator' = [creator EXCEPT !.userEnteredName = name]
  /\ last' = Step("name_entered", "none", gameState, << >>)
  /\ UNCHANGED <<gameState, hasSavedGame, isSaving, localStorage, calls, saved, turns, probe>>

\* handleImageChange -> generateCharacter, up to its await.
generateCharacter ==
  /\ CharacterCreatorShown
  /\ ~creator.isGenerating
  /\ creator' = [creator EXCEPT !.isGenerating = TRUE, !.generatedCharacter = None]
  /\ last' = Step("image_uploaded", "none", gameState, << >>)
  /\ UNCHANGED <<gameState, hasSavedGame, isSaving, localStorage, calls, saved, turns, probe>>

\* onGenerateCharacter resolves with the Character of generateCharacterFromImage.
CharacterGenerated(generatedData, image) ==
  /\ CharacterCreatorShown
  /\ creator.isGenerating
  /\ LET character == CharacterFromImage(generatedData, image)
     IN  creator' = [creator EXCEPT
                       !.generatedCharacter = Some(character),
                       !.userEnteredName = IF trim(@) = << >>
                                           THEN OrText(character.name, << >>)
                                           ELSE @,
                       !.isGenerating = FALSE]
  /\ last' = Step("character_generated", "none", gameState, << >>)
  /\ UNCHANGED <<gameState, hasSavedGame, isSaving, localStorage, calls, saved, turns, probe>>

\* onGenerateCharacter rejects: the error is shown, nothing is generated.
CharacterGenerationFails ==
  /\ CharacterCreatorShown
  /\ creator.isGenerating
  /\ creator' = [creator EXCEPT !.isGenerating = FALSE]
  /\ last' = Step("generation_failed", "other", gameState, << >>)
  /\ UNCHANGED <<gameState, hasSavedGame, isSaving, localStorage, calls, saved, turns, probe>>

\* Faulty variant of handleCreateCharacter: the status is not set.
handleCreateCharacter_staysOpen(prev, character) ==
  [prev EXCEPT !.character = Some(character)]

\* Faulty variant of handleCreateCharacter: the character is attached with its
\* strength at the minimum.
handleCreateCharacter_resetsStrength(prev, character) ==
  [prev EXCEPT !.character = Some([character EXCEPT !.strength = STAT_MIN]),
               !.status = "IDLE"]

\* handleCreateCharacter of App.
handleCreateCharacter(prev, character) ==
  [prev EXCEPT !.character = Some(character), !.status = "IDLE"]

\* Confirm Hero (disabled without a generatedCharacter or while generating)
\* -> handleConfirm -> onCharacterCreated(characterToSave).
handleConfirm ==
  /\ CharacterCreatorShown
  /\ IsSome(creator.generatedCharacter)
  /\ ~creator.isGenerating
  /\ LET generatedCharacter == creator.generatedCharacter[1]
         name == OrText(Some(trim(creator.userEnteredName)),
                        OrText(generatedCharacter.name, <<"U">>))
     IN  gameState' = handleCreateCharacter(gameState,
                                            [generatedCharacter EXCEPT !.name = Some(name)])
  /\ creator' = Unmounted
  /\ last' = Step("character_confirmed", "none", gameState, << >>)
  /\ UNCHANGED <<hasSavedGame, isSaving, localStorage, calls, saved, turns, probe>>

\* Cancel (disabled while generating) -> onCancel.
onCancel ==
  /\ CharacterCreatorShown
  /\ ~creator.isGenerating
  /\ gameState' = [gameState EXCEPT !.status = "IDLE"]
  /\ creator' = Unmounted
  /\ last' = Step("creator_cancelled", "none", gameState, << >>)
  /\ UNCHANGED <<hasSavedGame, isSaving, localStorage, calls, saved, turns, probe>>

\* ------------------------------------------------------- specification
Next ==
  \/ \E story \in StorySeeds : handleStartGame(story)
  \/ \E action \in CustomActions \cup {<<"a">>} : handleNextTurn(action)
  \/ \E i \in 1..Len(calls), text \in StoryTexts : RandomStoryReturns(i, text)
  \/ \E i \in 1..Len(calls), generatedData \in ProfileResponses : ProfileReturns(i, generatedData)
  \/ \E i \in 1..Len(calls), url \in Portraits : PortraitReturns(i, url)
  \/ \E i \in 1..Len(calls), data \in SceneResponses : SceneTextReturns(i, data)
  \/ \E i \in 1..Len(calls), response \in ImageResponses, id \in SceneIds :
        SceneImageReturns(i, response, id)
  \/ \E i \in 1..Len(calls), error \in Errors, aistudio \in BOOLEAN :
        ProviderCallThrows(i, error, aistudio)
  \/ \E i \in 1..Len(calls) : SelectKeyReturns(i)
  \/ \E i \in 1..Len(calls) : SelectKeyThrows(i)
  \/ \E stored \in BOOLEAN : onSaveGame(stored)
  \/ loadGame
  \/ StorageCleared
  \/ Reload
  \/ onCreateCharacter
  \/ \E name \in EnteredNames : EnterName(name)
  \/ generateCharacter
  \/ \E generatedData \in UploadedProfiles, image \in UploadedImages :
        CharacterGenerated(generatedData, image)
  \/ CharacterGenerationFails
  \/ handleConfirm
  \/ onCancel

Spec == Init /\ [][Next]_vars

\* The application on a store whose slot is written by saveGame alone: it is
\* empty when the application first mounts.
SavedSlotInit == Init /\ localStorage = None

SavedSlotSpec == SavedSlotInit /\ [][Next]_vars

\* saveGame called while gameState has no current scene: the callback on its
\* own, since App renders the Save Game button only with a scene.
saveGameWithoutScene(stored) ==
  /\ ~IsSome(gameState.currentScene)
  /\ saveGame(stored)

\* The application, and saveGame called without a scene.
SaveCallNext ==
  \/ Next
  \/ \E stored \in BOOLEAN : saveGameWithoutScene(stored)

SaveCallSpec == Init /\ [][SaveCallNext]_vars

\* ------------------------------------------- the character builders alone
\* The integer stats of the provider profiles the builders are run on.
StatInputs == {-100, 0, 100} \cup (1..MaxStatInput)

\* A parsed provider profile with the stats raw.
ProfileOf(raw) ==
  [name |-> Some(<<"A">>), appearanceDescription |-> Some(<<"t">>),
   strength |-> raw[1], dexterity |-> raw[2], intelligence |-> raw[3], charisma |-> raw[4]]

\* The four attributes of a Character.
Attributes(character) ==
  <<character.strength, character.dexterity, character.intelligence, character.charisma>>

NormalizerInit ==
  /\ gameState = InitialGameState
  /\ localStorage = None
  /\ hasSavedGame = FALSE
  /\ isSaving = FALSE
  /\ calls = << >>
  /\ creator = Unmounted
  /\ last = Step("mount", "none", InitialGameState, << >>)
  /\ saved = None
  /\ turns = -1
  /\ \E raw \in StatInputs \X StatInputs \X StatInputs \X StatInputs :
       probe = [NoProbe EXCEPT !.raw = raw]

\* generateCharacterFromImage on a profile with the stats probe.raw.
BuildFromImage ==
  /\ probe.builder = "none"
  /\ \E image \in UploadedImages :
       probe' = [probe EXCEPT
                   !.builder = "image",
                   !.out = Attributes(CharacterFromImage(ProfileOf(probe.raw), image)),
                   !.trace = ImageNormalization(StatsOf(ProfileOf(probe.raw))).trace,
                   !.warned = ImageNormalization(StatsOf(ProfileOf(probe.raw))).warned]
  /\ UNCHANGED <<gameState, hasSavedGame, isSaving, localStorage, calls, creator, last,
                 saved, turns>>

\* generateRandomCharacterDetails on a profile with the stats probe.raw.
BuildRandom ==
  /\ probe.builder = "none"
  /\ \E portraitImageUrl \in Portraits :
       probe' = [probe EXCEPT
                   !.builder = "random",
                   !.out = Attributes(RandomCharacter(ProfileOf(probe.raw), portraitImageUrl)),
                   !.trace = Normalization(StatsOf(ProfileOf(probe.raw))).trace,
                   !.warned = Normalization(StatsOf(ProfileOf(probe.raw))).warned]
  /\ UNCHANGED <<gameState, hasSavedGame, isSaving, localStorage, calls, creator, last,
                 saved, turns>>

\* A builder has run and nothing has been done with its result yet.
Built ==
  /\ probe.builder # "none"
  /\ probe.again = << >>
  /\ probe.other = << >>
  /\ probe.ofClamped = << >>

\* The post-processing of the builders applied to what a builder returned.
NormalizeAgain ==
  /\ Built
  /\ probe' = [probe EXCEPT !.again = NormalizeStats(probe.out)]
  /\ UNCHANGED <<gameState, hasSavedGame, isSaving, localStorage, calls, creator, last,
                 saved, turns>>

\* The builder that was not run is run on the same profile.
BuildOther ==
  /\ Built
  /\ \E image \in UploadedImages, portraitImageUrl \in Portraits :
       probe' = [probe EXCEPT
                   !.other = IF probe.builder = "random"
                             THEN Attributes(CharacterFromImage(ProfileOf(probe.raw), image))
                             ELSE Attributes(RandomCharacter(ProfileOf(probe.raw),
                                                             portraitImageUrl))]
  /\ UNCHANGED <<gameState, hasSavedGame, isSaving, localStorage, calls, creator, last,
                 saved, turns>>

\* The builder that was run is run again, on the profile with the clamped
\* stats.
BuildFromClamped ==
  /\ Built
  /\ \E image \in UploadedImages, portraitImageUrl \in Portraits :
       probe' = [probe EXCEPT
                   !.ofClamped =
                     IF probe.builder = "image"
                     THEN Attributes(CharacterFromImage(ProfileOf(Clamped(probe.raw)), image))
                     ELSE Attributes(RandomCharacter(ProfileOf(Clamped(probe.raw)),
                                                     portraitImageUrl))]
  /\ UNCHANGED <<gameState, hasSavedGame, isSaving, localStorage, calls, creator, last,
                 saved, turns>>

NormalizerNext ==
  \/ BuildFromImage
  \/ BuildRandom
  \/ NormalizeAgain
  \/ BuildOther
  \/ BuildFromClamped

NormalizerSpec == NormalizerInit /\ [][NormalizerNext]_vars

\* ------------------------------------------------------------ properties
InFlight == gameState.status \in {"STARTING", "LOADING_NEXT"}

IsPrefix(s, t) == Len(s) <= Len(t) /\ SubSeq(t, 1, Len(s)) = s

Alternates(history) ==
  \A k \in 1..Len(history) :
    history[k].role = IF k % 2 = 1 THEN "model" ELSE "user"

\* The four session fields that a save writes and a load restores.
SessionFields(gs) == SaveObject(gs)

\* C1: at most one handleStartGame or handleNextTurn call is in flight, and
\* while status is STARTING or LOADING_NEXT no intent is taken: a step from such
\* a state begins no call, and changes gameState only by ending the call in
\* flight.
C1_SingleTurnInFlight ==
  /\ [](Len(calls) <= 1 /\ (calls # << >> => InFlight))
  /\ [][InFlight => /\ Len(calls') <= Len(calls)
                    /\ (gameState' # gameState => Len(calls') < Len(calls))]_vars

\* A turn is in flight on a scene whose choice buttons are rendered.
C1_Witness ==
  /\ gameState.status = "LOADING_NEXT"
  /\ Len(calls) = 1
  /\ Choices(gameState.currentScene[1]) # {}

\* C2: after a turn that failed with an error other than quota exhaustion,
\* gameState equals gameState before the attempt (history, currentScene,
\* originalStory, character), status is PLAYING, and the same action can be
\* submitted again.
C2_TurnFailureRestores ==
  (last.op = "turn_failed" /\ last.error = "other") =>
    /\ SessionFields(gameState) = SessionFields(last.pre)
    /\ gameState.status = "PLAYING"
    /\ CanSubmit(last.input)

C2_Witness ==
  /\ last.op = "turn_failed"
  /\ last.error = "other"
  /\ Len(gameState.history) >= 3
  /\ IsSome(gameState.character)

\* C3: after a start or a turn that failed with quota exhaustion, status is
\* IDLE, and history and currentScene are as before the attempt.
C3_QuotaFailureRoutesToIdle ==
  (last.op \in {"start_failed", "turn_failed"} /\ last.error = "quota") =>
    /\ gameState.status = "IDLE"
    /\ gameState.history = last.pre.history
    /\ gameState.currentScene = last.pre.currentScene

\* A turn has failed with quota exhaustion and the session is PLAYING.
C3_Witness ==
  /\ last.op = "turn_failed"
  /\ last.error = "quota"
  /\ gameState.status = "PLAYING"

\* C4: after a start that failed, at any of its provider calls and with any
\* error, status is IDLE and originalStory, history, currentScene and character
\* are as before the start.
C4_FailedStartReverts ==
  last.op \in {"start_failed", "start_abandoned"} =>
    /\ gameState.status = "IDLE"
    /\ SessionFields(gameState) = SessionFields(last.pre)

\* A start has failed with quota exhaustion, the key prompt has rejected, and
\* the session is left STARTING with no call in flight.
C4_Witness ==
  /\ last.op = "start_abandoned"
  /\ gameState.status = "STARTING"
  /\ calls = << >>

\* C5: after a successful start and N successful turns, failed turns between
\* them or not, the history has exactly 1 + 2N entries.
C5_HistoryLength ==
  turns >= 0 => Len(gameState.history) = 1 + 2 * turns

\* A turn has failed after a successful one.
C5_Witness ==
  /\ turns >= 1
  /\ last.op \in {"turn_failed", "turn_abandoned"}

\* C6: the history is empty or begins with a model entry and alternates model,
\* user, model, ...; a successful turn appends the user's action and then the
\* description of the new scene.
C6_HistoryAlternates ==
  /\ [](Alternates(gameState.history))
  /\ [][last'.op = "turn_succeeded" =>
          gameState'.history = gameState.history \o
            <<[role |-> "user", text |-> Some(last'.input)],
              [role |-> "model", text |-> gameState'.currentScene[1].description]>>]_vars

C6_Witness ==
  /\ last.op = "turn_succeeded"
  /\ Len(gameState.history) >= 5

\* C7: the history only grows: across every step of a mounted application
\* other than a load, the history before the step is a prefix of the history
\* after it. (A page reload ends the application; the one that mounts starts
\* with a new, empty session.)
C7_HistoryAppendOnly ==
  [][last'.op \notin {"load_succeeded", "mount"} =>
       IsPrefix(gameState.history, gameState'.history)]_vars

\* A second successful turn has extended a history of three entries.
C7_Witness ==
  /\ turns >= 2
  /\ last.op = "turn_succeeded"
  /\ IsPrefix(last.pre.history, gameState.history)
  /\ Len(last.pre.history) >= 3

\* C8: a load of what a save has written restores originalStory, history,
\* currentScene and character as they were at the save, with status PLAYING.
C8_SaveLoadRoundTrip ==
  (last.op = "load_succeeded" /\ IsSome(saved)) =>
    /\ SessionFields(gameState) = SessionFields(saved[1].gameState)
    /\ gameState.status = "PLAYING"

\* A load has restored a character whose attributes differ from the saved ones.
C8_Witness ==
  /\ last.op = "load_succeeded"
  /\ IsSome(saved)
  /\ gameState.character # saved[1].gameState.character

\* C9: after a load that found a text that does not parse, the slot is empty
\* and gameState is as before the load, an attached character included.
C9_CorruptLoadKeepsSession ==
  last.op = "load_failed" =>
    /\ localStorage = None
    /\ gameState = last.pre

\* A corrupt load has removed the character that was attached.
C9_Witness ==
  /\ last.op = "load_failed"
  /\ IsSome(last.pre.character)
  /\ gameState.character = None

\* C10: a load that finds the slot empty changes no field of gameState and
\* leaves the slot as it was.
C10_NotFoundChangesNothing ==
  /\ [](last.op = "load_notfound" => gameState = last.pre)
  /\ [][last'.op = "load_notfound" =>
          gameState' = gameState /\ localStorage' = localStorage /\ localStorage = None]_vars

C10_Witness ==
  /\ last.op = "load_notfound"
  /\ IsSome(gameState.character)
  /\ localStorage = None

Succeeded == last.op \in {"start_succeeded", "turn_succeeded"}

\* C11: a failure of the image call never propagates: a handler call whose
\* text call returned ends in success, and the Scene it commits has an image
\* reference, the real image when the image response carried inline data and
\* the placeholder when the image call raised or returned none.
C11_ImageFailureNeverPropagates ==
  /\ Succeeded =>
       /\ last.call.image \in ImageResponses
       /\ gameState.currentScene[1].imageUrl # ""
       /\ gameState.currentScene[1].imageUrl =
            IF last.call.image = "inline" THEN "data:image/png" ELSE "picsum.photos/seed"
  /\ (last.call.kind # "none" /\ last.call.issued = <<"text", "image">>) => Succeeded

\* A turn has succeeded although its image call raised.
C11_Witness ==
  /\ last.op = "turn_succeeded"
  /\ last.call.image = "throws"
  /\ gameState.currentScene[1].imageUrl = "picsum.photos/seed"

\* The provider calls generateNextScene can have made, in their order.
InOrder(issued) == issued \in {<< >>, <<"text">>, <<"text", "image">>}

\* C12: within one generateNextScene call at most one text call and one image
\* call are made, the image call only after the text call has returned; when
\* the text call fails no image call was made and the handler call ends as
\* failed.
C12_TextThenImage ==
  /\ \A i \in 1..Len(calls) :
       /\ InOrder(calls[i].issued)
       /\ calls[i].pc = "text" => calls[i].issued = <<"text">>
       /\ calls[i].issued = <<"text", "image">> <=> calls[i].pc = "image"
  /\ last.call.kind # "none" =>
       /\ InOrder(last.call.issued)
       /\ last.call.issued # <<"text", "image">> =>
            /\ last.op \in {"start_failed", "start_abandoned", "turn_failed", "turn_abandoned"}
            /\ last.error \in Errors
            /\ last.call.image = "none"

\* The text call of a turn has failed.
C12_Witness ==
  /\ last.op = "turn_failed"
  /\ last.call.issued = <<"text">>
  /\ last.call.image = "none"

\* The four fields the provider's text response must carry are present.
Complete(scene) ==
  /\ IsSome(scene.description)
  /\ IsSome(scene.imagePrompt)
  /\ IsSome(scene.choices)
  /\ IsSome(scene.isEnding)

\* C13: a text response that is empty or lacks a required field makes scene
\* generation fail, so the current scene has its description, imagePrompt,
\* choices and isEnding, and every narrator entry of the history has a text.
C13_ScenesAreComplete ==
  /\ IsSome(gameState.currentScene) => Complete(gameState.currentScene[1])
  /\ \A k \in 1..Len(gameState.history) :
       gameState.history[k].role = "model" => IsSome(gameState.history[k].text)

\* A start has succeeded on an empty text response: the current scene has no
\* field of the response and the narrator entry has no text.
C13_Witness ==
  /\ last.op = "start_succeeded"
  /\ last.call.data = NoResponse
  /\ gameState.status = "PLAYING"
  /\ ~IsSome(gameState.currentScene[1].choices)
  /\ ~IsSome(gameState.history[1].text)

Sum(q) == q[1] + q[2] + q[3] + q[4]

\* A quadruple with every attribute in [STAT_MIN, STAT_MAX] and the sum
\* STAT_POINTS_TOTAL.
Valid(q) ==
  /\ \A k \in 1..4 : q[k] \in STAT_MIN..STAT_MAX
  /\ Sum(q) = STAT_POINTS_TOTAL

\* C14: for every integer quadruple of stats in [-100, 100] that the provider
\* returns, the character either builder produces has every attribute in
\* [1, 5] and the attributes sum to 10.
C14_BuildersNormalize ==
  (probe.builder # "none" /\ \A k \in 1..4 : probe.raw[k] \in -100..100) =>
    /\ \A k \in 1..4 : probe.out[k] \in 1..5
    /\ Sum(probe.out) = 10

\* The builder without an image has been run on stats far below and far above
\* the limits.
C14_Witness ==
  /\ probe.builder = "random"
  /\ probe.raw = <<-100, 100, 0, MaxStatInput>>
  /\ Valid(probe.out)

\* C15: the normalization is idempotent: a builder returns the stats of a
\* profile whose stats are in [1, 5] and sum to 10 as they are, and the
\* normalization of what a builder returned returns it unchanged.
C15_NormalizerIdempotent ==
  /\ (probe.builder # "none" /\ Valid(probe.raw)) => probe.out = probe.raw
  /\ probe.again # << >> => probe.again = probe.out

\* The stats a builder made of an invalid profile have been normalized again.
C15_Witness ==
  /\ probe.builder = "image"
  /\ ~Valid(probe.raw)
  /\ probe.out # probe.raw
  /\ probe.again = probe.out

\* A start with a blank seed and no character attached has succeeded.
BlankStartSucceeded ==
  /\ last.op = "start_succeeded"
  /\ trim(last.call.story) = << >>
  /\ ~IsSome(last.pre.character)

\* C16: a start with an empty or blank seed and no character, all of whose
\* provider calls returned, ends in PLAYING with a non-empty originalStory and
\* a character whose four attributes sum to 10.
C16_BlankStartFillsStoryAndCharacter ==
  BlankStartSucceeded =>
    /\ gameState.status = "PLAYING"
    /\ gameState.originalStory # << >>
    /\ IsSome(gameState.character)
    /\ \A k \in 1..4 : IsNum(Attributes(gameState.character[1])[k])
    /\ Sum(Attributes(gameState.character[1])) = 10

\* Such a start has ended in PLAYING with the fixed story and a character
\* whose attributes are NaN.
C16_Witness ==
  /\ BlankStartSucceeded
  /\ gameState.status = "PLAYING"
  /\ gameState.originalStory = FallbackStory
  /\ Attributes(gameState.character[1]) = <<NaN, NaN, NaN, NaN>>

\* C17: after a successful start originalStory is the trimmed seed when that
\* is not empty and a story of generateRandomStory otherwise; character is the
\* character that was attached, and one of generateRandomCharacterDetails when
\* none was; currentScene is the scene generateNextScene returned, requested
\* with an empty history; and history is the one narrator entry with that
\* scene's description.
C17_StartCommits ==
  last.op = "start_succeeded" =>
    LET c == last.call
        seed == trim(c.story)
    IN  /\ gameState.status = "PLAYING"
        /\ gameState.originalStory \in
             IF seed # << >> THEN {seed}
             ELSE {generateRandomStory(text) : text \in StoryTexts}
        /\ gameState.character \in
             IF IsSome(last.pre.character) THEN {last.pre.character}
             ELSE {Some(RandomCharacter(generatedData, portraitImageUrl)) :
                     generatedData \in ProfileResponses, portraitImageUrl \in Portraits}
        /\ c.history = << >>
        /\ c.userInput = AdventureBegins
        /\ gameState.currentScene \in
             {Some(Scene(c.data, generateSceneImage(c.image), id)) : id \in SceneIds}
        /\ gameState.history =
             <<[role |-> "model", text |-> gameState.currentScene[1].description]>>

\* A start with the seed " s " and an attached character has succeeded.
C17_Witness ==
  /\ last.op = "start_succeeded"
  /\ last.call.story = <<" ", "s", " ">>
  /\ gameState.originalStory = <<"s">>
  /\ IsSome(last.pre.character)
  /\ gameState.character = last.pre.character
  /\ Len(gameState.history) = 1

\* The current scene is an ending.
AtEnding == IsSome(gameState.currentScene) /\ Truthy(gameState.currentScene[1].isEnding)

\* C18: while the current scene is an ending no turn is started: status is
\* PLAYING, no call is in flight and no action can be submitted; a turn is
\* submitted, and status is LOADING_NEXT, only with a current scene whose
\* isEnding is false.
C18_EndingHaltsTurns ==
  /\ AtEnding =>
       /\ gameState.status = "PLAYING"
       /\ calls = << >>
       /\ \A action \in CustomActions \cup Choices(gameState.currentScene[1]) :
            ~CanSubmit(action)
  /\ gameState.status = "LOADING_NEXT" =>
       /\ IsSome(gameState.currentScene)
       /\ gameState.currentScene[1].isEnding = Some(FALSE)
  /\ last.op = "turn_submitted" =>
       /\ last.pre.status = "PLAYING"
       /\ IsSome(last.pre.currentScene)
       /\ last.pre.currentScene[1].isEnding = Some(FALSE)

\* A successful turn has produced an ending.
C18_Witness ==
  /\ AtEnding
  /\ last.op = "turn_succeeded"
  /\ gameState.status = "PLAYING"

\* C19: the session is never left in STARTING or LOADING_NEXT: whenever status
\* is one of them a handler call is in flight whose awaits, once settled, set
\* status to IDLE or PLAYING, whatever the outcome of the key prompt.
C19_StatusReturnsToStable ==
  /\ InFlight => Len(calls) = 1
  /\ last.op \in {"start_failed", "start_abandoned", "turn_failed", "turn_abandoned",
                  "start_succeeded", "turn_succeeded"} => ~InFlight

\* The key prompt has rejected: no call is in flight and status is STARTING or
\* LOADING_NEXT.
C19_Witness ==
  /\ InFlight
  /\ calls = << >>
  /\ last.op \in {"start_abandoned", "turn_abandoned"}

\* C20: CharacterCreation is entered only from IDLE, by a step that changes
\* only status; while in it gameState does not change; cancelling returns to
\* IDLE with every other field, an attached character included, unchanged;
\* confirming returns to IDLE with character set to the generated character
\* under the confirmed name and originalStory, history and currentScene
\* unchanged.
C20_CharacterAuthoring ==
  [][/\ (gameState'.status = "CHARACTER_CREATION" /\ gameState.status # "CHARACTER_CREATION") =>
          /\ gameState.status = "IDLE"
          /\ gameState' = [gameState EXCEPT !.status = "CHARACTER_CREATION"]
     /\ gameState.status = "CHARACTER_CREATION" =>
          \/ gameState' = gameState
          \/ /\ last'.op = "creator_cancelled"
             /\ gameState' = [gameState EXCEPT !.status = "IDLE"]
          \/ /\ last'.op = "character_confirmed"
             /\ IsSome(creator.generatedCharacter)
             /\ gameState' =
                  [gameState EXCEPT
                     !.status = "IDLE",
                     !.character =
                       Some([creator.generatedCharacter[1] EXCEPT
                               !.name = Some(IF trim(creator.userEnteredName) # << >>
                                             THEN trim(creator.userEnteredName)
                                             ELSE OrText(@, <<"U">>))])]
     /\ last'.op \in {"creator_cancelled", "character_confirmed"} =>
          gameState.status = "CHARACTER_CREATION" /\ gameState'.status = "IDLE"
    ]_vars

\* Authoring was cancelled with a character attached, which is kept.
C20_Witness ==
  /\ last.op = "creator_cancelled"
  /\ IsSome(last.pre.character)
  /\ gameState = [last.pre EXCEPT !.status = "IDLE"]

\* C21: a save whose write the store rejects does not crash: gameState, status
\* included, is as before the save, isSaving is false again, and the save
\* button and (unless the scene is an ending) the action form are enabled
\* again; a save that was stored leaves gameState as it was, too.
C21_SaveLeavesSession ==
  /\ last.op = "save_failed" =>
       /\ gameState = last.pre
       /\ isSaving = FALSE
       /\ CanSave
       /\ ~AtEnding => CanSubmit(<<"a">>)
  /\ last.op = "save_succeeded" =>
       /\ gameState = last.pre
       /\ isSaving = FALSE

\* The store has rejected the save of a session with a turn taken; the slot
\* holds no save.
C21_Witness ==
  /\ last.op = "save_failed"
  /\ last.error = "storage"
  /\ gameState.status = "PLAYING"
  /\ Len(gameState.history) >= 3
  /\ ~IsSome(saved)

\* The steps of play: a turn is submitted, succeeds or fails, the game is saved.
PlaySteps ==
  {"turn_submitted", "turn_succeeded", "turn_failed", "turn_abandoned", "select_key",
   "text_generated", "save_succeeded", "save_failed", "save_nothing"}

\* C22: the attached character does not change across play: the submission,
\* the success and the failure of a turn and a save leave character and
\* originalStory as they are; a start with a character attached commits that
\* character; and character changes only when a character is confirmed in
\* CharacterCreator, when a start without a character succeeds, or in a load.
\* (A page reload ends the application; the one that mounts has no character.)
C22_CharacterImmutableInPlay ==
  /\ [](last.op = "start_succeeded" /\ IsSome(last.pre.character) =>
          gameState.character = last.pre.character)
  /\ [][/\ last'.op \in PlaySteps =>
             /\ gameState'.character = gameState.character
             /\ gameState'.originalStory = gameState.originalStory
        /\ gameState'.character # gameState.character =>
             \/ last'.op = "character_confirmed"
             \/ last'.op = "start_succeeded" /\ ~IsSome(gameState.character)
             \/ last'.op \in {"load_succeeded", "load_failed", "mount"}]_vars

\* A second turn has succeeded for the character that was attached.
C22_Witness ==
  /\ last.op = "turn_succeeded"
  /\ turns >= 2
  /\ IsSome(gameState.character)
  /\ gameState.character = last.pre.character
  /\ gameState.originalStory = last.pre.originalStory

\* The unit adjustments the loop has made to stat k: up when the clamped sum
\* was below the total, down when it was above.
Adjustments(raw, out, k) ==
  IF Sum(Clamped(raw)) < STAT_POINTS_TOTAL THEN out[k] - Clamped(raw)[k]
  ELSE Clamped(raw)[k] - out[k]

\* The bound the loop moves the stats toward.
BoundOf(raw) == IF Sum(Clamped(raw)) < STAT_POINTS_TOTAL THEN STAT_MAX ELSE STAT_MIN

\* Stat k was adjusted whenever the for loop came to it: it has ended short of
\* the bound, or it was adjusted in every pass.
NotStopped(raw, out, k) ==
  \/ out[k] # BoundOf(raw)
  \/ \A j \in 1..4 : Adjustments(raw, out, k) >= Adjustments(raw, out, j)

\* C23: the loop adjusts by single units in the order strength, dexterity,
\* intelligence, charisma, pass after pass: with a clamped sum below 10 no stat
\* is decreased, with one above 10 none is increased, a stat at the bound is
\* left as it is, and of two stats that no bound has stopped the earlier one
\* has received as many adjustments as the later one or one more; the stats
\* (1,1,1,1) become (3,3,2,2).
C23_AdjustsInOrder ==
  probe.builder # "none" =>
    LET raw == probe.raw
        out == probe.out
    IN  /\ \A k \in 1..4 :
             /\ Adjustments(raw, out, k) >= 0
             /\ Clamped(raw)[k] = BoundOf(raw) => out[k] = Clamped(raw)[k]
        /\ Sum(Clamped(raw)) = STAT_POINTS_TOTAL => out = Clamped(raw)
        /\ \A i \in 1..4, j \in 1..4 :
             (i < j /\ NotStopped(raw, out, i) /\ NotStopped(raw, out, j)) =>
               /\ Adjustments(raw, out, i) >= Adjustments(raw, out, j)
               /\ Adjustments(raw, out, i) <= Adjustments(raw, out, j) + 1
        /\ raw = <<1, 1, 1, 1>> => out = <<3, 3, 2, 2>>

\* A builder has been run on the stats (1,1,1,1).
C23_Witness ==
  /\ probe.builder = "image"
  /\ probe.raw = <<1, 1, 1, 1>>
  /\ probe.out = <<3, 3, 2, 2>>

\* C24: with STAT_MIN = 1, STAT_MAX = 5 and STAT_POINTS_TOTAL = 10 the loop of
\* a builder never ends in the branch of console.warn (a pass that changed
\* nothing with points left over), whatever integers the profile carries.
C24_InfeasibleBranchUnreachable ==
  probe.builder # "none" => ~probe.warned

\* A builder has run the loop for more than one pass, down from the highest
\* clamped sum, and has not warned.
C24_Witness ==
  /\ probe.builder = "random"
  /\ probe.raw = <<100, 100, 100, 100>>
  /\ Len(probe.trace) >= 2
  /\ ~probe.warned

Abs(n) == IF n < 0 THEN -n ELSE n

\* C25: the loop of a builder ends for every quadruple of integer stats, after
\* at most 4 * (STAT_MAX - STAT_MIN) = 16 passes over the four stats, and from
\* each pass to the next the absolute value of remainingPoints has decreased.
C25_LoopTerminates ==
  probe.builder # "none" =>
    /\ probe.out # << >>
    /\ Len(probe.trace) <= 4 * (STAT_MAX - STAT_MIN)
    /\ \A p \in 1..Len(probe.trace) : probe.trace[p] # 0
    /\ \A p \in 1..(Len(probe.trace) - 1) : Abs(probe.trace[p + 1]) < Abs(probe.trace[p])

\* A builder has run three passes, with 10, 6 and 2 points to take away.
C25_Witness ==
  /\ probe.builder = "image"
  /\ probe.raw = <<100, MaxStatInput, 100, 100>>
  /\ probe.trace = <<-10, -6, -2>>
  /\ Valid(probe.out)

\* The texts of the request of call c are, in order: the origin story (with
\* the character context when a character is attached), the entries of the
\* history at submission, the action.
PartsInOrder(c, parts) ==
  /\ Len(parts) = 2 + Len(c.history)
  /\ parts[1] = Part("Original Story Context:", Some(c.gameState.originalStory),
                     CharacterContext(c.gameState.character))
  /\ \A k \in 1..Len(c.history) : parts[1 + k] = Part("", c.history[k].text, None)
  /\ parts[2 + Len(c.history)] = Part("Player Action:", Some(c.userInput), None)

\* The request of the turn call c is as specified: 2 + |history| items, each a
\* turn with its role.
TurnRequestAsSpecified(c) ==
  LET req == c.request
      n == Len(c.history)
  IN  /\ c.history = c.gameState.history
      /\ Len(req) = 2 + n
      /\ \A k \in 1..(2 + n) : Len(req[k].parts) = 1
      /\ PartsInOrder(c, [k \in 1..(2 + n) |-> req[k].parts[1]])
      /\ req[1].role = Some("user")
      /\ \A k \in 1..n : req[1 + k].role = Some(c.history[k].role)
      /\ req[2 + n].role = Some("user")
      /\ IsSome(req[1].parts[1].characterContext) <=> IsSome(c.gameState.character)

\* C26: the request of a turn's text call has, in order, the origin story as
\* its first item, then every entry of the history at submission as a turn
\* with the entry's role, then the action as the last, user, turn: 2 +
\* |history| items; the character context is in the first item, and nowhere
\* else, exactly when a character is attached.
C26_TurnRequest ==
  /\ \A i \in 1..Len(calls) : calls[i].kind = "turn" => TurnRequestAsSpecified(calls[i])
  /\ last.call.kind = "turn" => TurnRequestAsSpecified(last.call)

\* A turn is in flight for a session with a character and three entries of
\* history: its request is one item without a role, which holds the five
\* texts in the specified order.
C26_Witness ==
  /\ Len(calls) = 1
  /\ calls[1].kind = "turn"
  /\ Len(calls[1].history) = 3
  /\ IsSome(calls[1].gameState.character)
  /\ Len(calls[1].request) = 1
  /\ calls[1].request[1].role = None
  /\ PartsInOrder(calls[1], calls[1].request[1].parts)

\* The provider calls among the awaits of a handler call (the key prompt is
\* none).
RECURSIVE ProviderCalls(_)
ProviderCalls(awaited) ==
  IF awaited = << >> THEN << >>
  ELSE IF Head(awaited) = "selectKey" THEN ProviderCalls(Tail(awaited))
  ELSE <<Head(awaited)>> \o ProviderCalls(Tail(awaited))

\* The provider calls of a start that succeeds: the random story for a blank
\* seed, the random character (profile, then portrait) when none is attached,
\* the scene text, the scene image.
StartCalls(c) ==
  (IF trim(c.story) = << >> THEN <<"story">> ELSE << >>)
  \o (IF IsSome(c.gameState.character) THEN << >> ELSE <<"profile", "portrait">>)
  \o <<"text", "image">>

\* C27: while STARTING the provider calls are made one after another in the
\* order random story (for a blank seed only), random character (only when
\* none is attached), scene text, scene image; after a call has failed no
\* further call is made; and until the scene call has succeeded no field of
\* gameState other than status is written.
C27_StartSequence ==
  /\ \A i \in 1..Len(calls) :
       calls[i].kind = "start" =>
         /\ gameState.status = "STARTING"
         /\ IsPrefix(ProviderCalls(calls[i].awaited), StartCalls(calls[i]))
         /\ calls[i].pc = calls[i].awaited[Len(calls[i].awaited)]
         /\ SessionFields(gameState) = SessionFields(calls[i].gameState)
  /\ last.call.kind = "start" =>
       /\ IsPrefix(ProviderCalls(last.call.awaited), StartCalls(last.call))
       /\ last.op = "start_succeeded" <=> ProviderCalls(last.call.awaited) = StartCalls(last.call)
       /\ last.op # "start_succeeded" =>
            /\ last.error \in Errors
            /\ SessionFields(gameState) = SessionFields(last.pre)

\* A start with a blank seed and no character has failed at the profile call:
\* neither the scene text nor the scene image was requested, and gameState is
\* the initial one.
C27_Witness ==
  /\ last.op = "start_failed"
  /\ last.call.awaited = <<"story", "profile">>
  /\ last.call.issued = << >>
  /\ gameState = InitialGameState

\* C28: whatever text the slot holds, a load ends in one of three ways: not
\* found, with the slot absent; corrupt data; or a session in PLAYING that has
\* a current scene and a history. A text that parses but has another shape
\* (an object without currentScene) never gives PLAYING without a current
\* scene.
C28_LoadOutcomes ==
  /\ last.op = "load_notfound" => localStorage = None /\ gameState = last.pre
  /\ last.op = "load_failed" => last.error = "corrupt"
  /\ last.op = "load_succeeded" =>
       /\ gameState.status = "PLAYING"
       /\ IsSome(gameState.currentScene)
       /\ \A k \in 1..Len(gameState.history) : gameState.history[k].role \in {"user", "model"}

\* A load of {"originalStory": "", "history": []} has ended as a success: the
\* session is PLAYING without a current scene, and neither StoryInput nor
\* GameInterface is rendered.
C28_Witness ==
  /\ last.op = "load_succeeded"
  /\ localStorage = Some(WrongShapeText)
  /\ gameState.status = "PLAYING"
  /\ gameState.currentScene = None
  /\ ~GameInterfaceShown
  /\ ~StoryInputShown

\* C29: when the slot is written by saveGame alone, a session in PLAYING or
\* LOADING_NEXT has a current scene, and a session in IDLE,
\* CHARACTER_CREATION or STARTING that has had no successful start or load has
\* no current scene and an empty history.
C29_StatusAndScene ==
  /\ gameState.status \in {"PLAYING", "LOADING_NEXT"} => IsSome(gameState.currentScene)
  /\ (gameState.status \in {"IDLE", "CHARACTER_CREATION", "STARTING"} /\ turns = -1) =>
       /\ gameState.currentScene = None
       /\ gameState.history = << >>

\* A load of what saveGame has stored has put the session in PLAYING with the
\* saved scene.
C29_Witness ==
  /\ last.op = "load_succeeded"
  /\ IsSome(saved)
  /\ gameState.status = "PLAYING"
  /\ IsSome(gameState.currentScene)
  /\ gameState.currentScene = saved[1].gameState.currentScene

\* The last entry of the history tells the current scene.
HistoryEndsWithScene(gs) ==
  /\ gs.history # << >>
  /\ gs.history[Len(gs.history)] =
       [role |-> "model", text |-> gs.currentScene[1].description]

\* C30: when the slot is written by saveGame alone, a session with a current
\* scene has a history that is not empty and ends with a narrator entry whose
\* text is the description of the current scene: after a start, after a turn
\* that succeeded or failed, and after a load.
C30_HistoryEndsWithScene ==
  IsSome(gameState.currentScene) => HistoryEndsWithScene(gameState)

\* A turn has succeeded with another scene than the first: the history ends
\* with the description of the scene that is current.
C30_Witness ==
  /\ last.op = "turn_succeeded"
  /\ turns >= 1
  /\ gameState.currentScene[1].description # gameState.history[1].text
  /\ HistoryEndsWithScene(gameState)

\* C31: save, load and start do not interleave with a call in flight: a load
\* and a start are taken only in IDLE and a save only in PLAYING, so none is
\* taken in STARTING or LOADING_NEXT; and while a call is in flight the session
\* is the one its closure holds, so that its completion is applied to the
\* session it was issued for and never to one a load has put in its place.
C31_NoInterleaving ==
  /\ last.op \in {"load_succeeded", "load_failed", "load_notfound", "start_submitted"} =>
       last.pre.status = "IDLE"
  /\ last.op \in {"save_succeeded", "save_failed", "save_nothing"} =>
       last.pre.status = "PLAYING"
  /\ \A i \in 1..Len(calls) :
       /\ gameState.status = IF calls[i].kind = "start" THEN "STARTING" ELSE "LOADING_NEXT"
       /\ SessionFields(gameState) = SessionFields(calls[i].gameState)
  /\ (last.call.kind # "none" /\ Succeeded) =>
       /\ gameState.originalStory = last.call.finalStory
       /\ gameState.character = last.call.finalCharacter
       /\ IsPrefix(last.call.gameState.history, gameState.history)

\* A turn is in flight while the slot holds a save and the load button would
\* be offered in IDLE.
C31_Witness ==
  /\ Len(calls) = 1
  /\ calls[1].kind = "turn"
  /\ gameState.status = "LOADING_NEXT"
  /\ hasSavedGame
  /\ IsSome(saved)
  /\ SessionFields(gameState) = SessionFields(calls[1].gameState)

SaveSteps == {"save_succeeded", "save_failed", "save_nothing"}

\* C32: saveGame called without a current scene writes nothing: the slot keeps
\* what it held, or stays empty, and gameState does not change; so every text
\* that is written to the slot has a current scene.
C32_SaveWithoutScene ==
  /\ [](IsSome(saved) => /\ IsSome(localStorage)
                         /\ IsSome(localStorage[1].value.currentScene))
  /\ [][/\ (last'.op \in SaveSteps /\ ~IsSome(gameState.currentScene)) =>
             /\ last'.op = "save_nothing"
             /\ localStorage' = localStorage
             /\ gameState' = gameState
        /\ (localStorage' # localStorage /\ IsSome(localStorage')) =>
             /\ last'.op = "save_succeeded"
             /\ IsSome(localStorage'[1].value.currentScene)]_vars

\* saveGame was called in a new session, without a scene, while the slot held
\* the save of an earlier one: the slot still holds that save.
C32_Witness ==
  /\ last.op = "save_nothing"
  /\ gameState.currentScene = None
  /\ IsSome(saved)
  /\ localStorage = Some(JSONStringify(SaveObject(saved[1].gameState)))

\* C33: the two copies of the post-processing agree: on every profile with
\* integer stats generateCharacterFromImage and generateRandomCharacterDetails
\* return the same strength, dexterity, intelligence and charisma.
C33_CopiesAgree ==
  probe.other # << >> => probe.other = probe.out

\* Both builders have been run on stats that had to be clamped and adjusted.
C33_Witness ==
  /\ probe.builder = "image"
  /\ probe.raw = <<-100, 100, 0, MaxStatInput>>
  /\ probe.other # << >>
  /\ probe.other = probe.out
  /\ probe.out # Clamped(probe.raw)

\* C34: the post-processing depends on the clamped stats only: a builder
\* returns for a profile with integer stats what it returns for the profile
\* with those stats clamped to [1, 5], so that two profiles with the same
\* clamped stats get the same attributes.
C34_DependsOnClampedOnly ==
  probe.ofClamped # << >> => probe.ofClamped = probe.out

\* generateCharacterFromImage has been run on stats outside [1, 5] and on
\* their clamped values, which are no valid stats themselves.
C34_Witness ==
  /\ probe.builder = "image"
  /\ probe.raw = <<100, -100, MaxStatInput, 0>>
  /\ Clamped(probe.raw) = <<5, 1, 5, 1>>
  /\ probe.ofClamped = probe.out
  /\ probe.out # Clamped(probe.raw)

\* C35: confirming a character does not alter its attributes: a confirmation
\* is taken only with a generated character (or the attached one the creator
\* was opened with), and the character it attaches has that character's
\* strength, dexterity, intelligence and charisma, appearance and portrait;
\* only the name may differ: it is the trimmed entry of the user, or else the
\* generated name, or else the fixed default. So attributes in [1, 5] with
\* sum 10 are such after the confirmation.
C35_ConfirmKeepsAttributes ==
  [][last'.op = "character_confirmed" =>
       /\ IsSome(creator.generatedCharacter)
       /\ IsSome(gameState'.character)
       /\ LET generated == creator.generatedCharacter[1]
              attached == gameState'.character[1]
          IN  /\ Attributes(attached) = Attributes(generated)
              /\ attached = [generated EXCEPT !.name = attached.name]
              /\ attached.name =
                   Some(IF trim(creator.userEnteredName) # << >>
                        THEN trim(creator.userEnteredName)
                        ELSE IF IsSome(generated.name) /\ generated.name[1] # << >>
                        THEN generated.name[1]
                        ELSE <<"U">>)
              /\ Valid(Attributes(generated)) => Valid(Attributes(attached))]_vars

\* The attached character was opened in the creator and confirmed under
\* another name: its attributes are those it had, in [1, 5] with sum 10.
C35_Witness ==
  /\ last.op = "character_confirmed"
  /\ IsSome(last.pre.character)
  /\ gameState.character[1].name = Some(<<"Z">>)
  /\ last.pre.character[1].name # Some(<<"Z">>)
  /\ Attributes(gameState.character[1]) = Attributes(last.pre.character[1])
  /\ Valid(Attributes(gameState.character[1]))

====
